---------------------------- MODULE Spec2Model ----------------------------
(***************************************************************************)
(* A model of veloren-changelog (src/src/main.rs): one run of `main`, which *)
(* compares the stored CHANGELOG.md / DEVBLOGS.md baselines with freshly   *)
(* downloaded copies, collects the new lines of the "Unreleased" section   *)
(* and the new blog posts, and posts them to Discord.                      *)
(*                                                                         *)
(* Strings are sequences of one-character strings, so that split,          *)
(* starts_with, strip_prefix, slicing and concatenation are computed the   *)
(* way the Rust code computes them.                                        *)
(***************************************************************************)
EXTENDS Naturals, Sequences, FiniteSets

(***************************************************************************)
(* String helpers (std::str).                                              *)
(***************************************************************************)
NL == "\n"

StartsWith(s, p) == Len(s) >= Len(p) /\ SubSeq(s, 1, Len(p)) = p

\* str::strip_prefix, applied where the prefix is known to be present.
StripPrefix(s, p) == SubSeq(s, Len(p) + 1, Len(s))

\* &line[1..]: the line without its first byte (the lines here are ASCII).
DropFirst(s) == SubSeq(s, 2, Len(s))

RECURSIVE SplitFrom(_, _, _)
SplitFrom(s, i, cur) ==
    IF i > Len(s) THEN <<cur>>
    ELSE IF s[i] = NL THEN <<cur>> \o SplitFrom(s, i + 1, <<>>)
    ELSE SplitFrom(s, i + 1, Append(cur, s[i]))

\* str::split('\n'): the pieces between the separators; a text that ends in
\* the separator yields a final empty piece, the empty text yields one
\* empty piece.
Split(s) == SplitFrom(s, 1, <<>>)

RECURSIVE Join(_)
\* [String]::join("\n")
Join(ls) ==
    IF ls = <<>> THEN <<>>
    ELSE IF Len(ls) = 1 THEN ls[1]
    ELSE ls[1] \o <<NL>> \o Join(Tail(ls))

RECURSIVE Concat(_)
\* Iterator<String>::collect::<String>()
Concat(ls) == IF ls = <<>> THEN <<>> ELSE ls[1] \o Concat(Tail(ls))

(***************************************************************************)
(* Program constants.                                                      *)
(***************************************************************************)
CHANGELOG_PATH == "CHANGELOG.md"
DEVBLOGS_PATH == "DEVBLOGS.md"
TOKEN_PATH == "DISCORD_TOKEN"

UNRELEASED_HEADER ==
    <<"#","#"," ","[","U","n","r","e","l","e","a","s","e","d","]">>

TopPrefix == <<"#","#"," ">>
SubPrefix == <<"#","#","#"," ">>
BulletPrefix == <<"-"," ">>
BlogHeader == <<"#","#"," ","B","l","o","g"," ","p","o","s","t","(","s",")">>
Title == <<"#"," ","V","e","l","o","r","e","n"," ","N","e","w","s","!",NL>>
UpdatesChannel == "veloren-updates"

(***************************************************************************)
(* The documents the model draws its inputs from.                          *)
(***************************************************************************)
Blank == <<>>
SubA == <<"#","#","#"," ","A">>
BulletA == <<"-"," ","a">>
BulletB == <<"-"," ","b">>
ContC == <<" ","c">>
TopV == <<"#","#"," ","V">>

\* The lines an unreleased section is built from.
SectionLines == {Blank, SubA, BulletA, BulletB, ContC}

\* What follows the unreleased section: the end of the text right after a
\* final newline, or an older release (a top-level header and its entry).
TailEof == <<Blank>>
TailRelease == <<TopV, BulletA, Blank>>
Tails == {TailEof, TailRelease}

Preamble == <<<<"#"," ","C">>, Blank>>

SeqsUpTo(S, n) == UNION {[1..k -> S] : k \in 0..n}

\* The text of a changelog: preamble, marker, section, tail.
ChangelogText(section, tail) ==
    Join(Preamble \o <<UNRELEASED_HEADER>> \o section \o tail)

ChangelogTexts(n) ==
    {ChangelogText(s, t) : s \in SeqsUpTo(SectionLines, n), t \in Tails}

\* The blog index: the href values of the page's .header-link elements.
Url1 == <<"u","1">>
Url2 == <<"u","2">>
Urls == {Url1, Url2}

\* Channel names of a guild.
OtherChannel == "general"
ChannelNames == {UpdatesChannel, OtherChannel}

\* Bounds.
MaxLines == 2        \* section lines of the documents of SpecExtract
MaxInserted == 2     \* bullets inserted into the old section in SpecInsert
MaxRunLines == 1     \* section lines of the documents of a whole run (Spec)
MaxFeedEntries == 1  \* entries of a blog index
MaxGuilds == 2       \* guilds the bot has joined
MaxChannels == 1     \* channels of a guild

(***************************************************************************)
(* State.                                                                  *)
(***************************************************************************)
VARIABLES
    fs,             \* the files: path -> [exists, data]
    pc,             \* the position of main
    status,         \* of the process: "running" | "ok" | "err" | "panic"
    changelog_old,  \* main.rs:26
    changelog_new,  \* main.rs:31
    old,            \* main.rs:37, the peekable iterator: its remaining lines
    new,            \* main.rs:43, the iterator: its remaining lines
    changes,        \* main.rs:34
    devblogs_old,   \* main.rs:89
    devblogs_new,   \* main.rs:94
    client,         \* the Discord client: "none" | "built" | "connected" | "closed"
    message,        \* Handler.message, main.rs:117
    SHARD_MANAGER,  \* main.rs:22: TRUE for Some(..)
    handler,        \* Handler::ready: "idle" | "guilds" | "channels" | "returned" | "panicked"
    guildsLeft,     \* guilds the handler has still to visit
    channelsLeft,   \* channels of the current guild still to visit
    attempts,       \* calls of channel.say made
    delivered       \* calls of channel.say that succeeded

mainVars == <<pc, status, changelog_old, changelog_new, old, new, changes,
              devblogs_old, devblogs_new>>
discordVars == <<client, message, SHARD_MANAGER, handler, guildsLeft,
                 channelsLeft, attempts, delivered>>
vars == <<fs, mainVars, discordVars>>

File(data) == [exists |-> TRUE, data |-> data]
NoFile == [exists |-> FALSE, data |-> <<>>]

(***************************************************************************)
(* The cursors of the change extraction (main.rs:36-44, 72-77).            *)
(***************************************************************************)
Ok(it) == [panic |-> FALSE, it |-> it]
Panicked == [panic |-> TRUE, it |-> <<>>]

RECURSIVE SkipToUnreleased(_)
\* while it.next().unwrap() != UNRELEASED_HEADER {}
SkipToUnreleased(it) ==
    IF it = <<>> THEN Panicked
    ELSE IF Head(it) = UNRELEASED_HEADER THEN Ok(Tail(it))
    ELSE SkipToUnreleased(Tail(it))

IsNoise(line) == line = <<>> \/ StartsWith(line, SubPrefix)

RECURSIVE SkipNoise(_)
\* while old.peek().unwrap().is_empty() || old.peek().unwrap().starts_with("### ") { old.next(); }
SkipNoise(it) ==
    IF it = <<>> THEN Panicked
    ELSE IF IsNoise(Head(it)) THEN SkipNoise(Tail(it))
    ELSE Ok(it)

\* A plausible slip: the old cursor is not advanced past the matched line.
AdvanceOldStuck(it) == Ok(it)

\* old.next(); followed by the re-skip of blank lines and sub-section headers.
AdvanceOld(it) == SkipNoise(Tail(it))

\* A plausible slip: the empty sub-section is kept.
PopNothing(ch) == ch

\* if let Some(s) = changes.last() { if s.starts_with("## ") { changes.pop(); } }
PopEmptySection(ch) ==
    IF ch # <<>> /\ StartsWith(ch[Len(ch)], TopPrefix)
    THEN SubSeq(ch, 1, Len(ch) - 1)
    ELSE ch

\* changes.last_mut().unwrap().push_str(&line[1..])
AppendToLast(ch, line) ==
    [ch EXCEPT ![Len(ch)] = ch[Len(ch)] \o DropFirst(line)]

\* A panic of main: the process aborts where it is.
Panic ==
    /\ status' = "panic"
    /\ UNCHANGED <<fs, pc, changelog_old, changelog_new, old, new, changes,
                   devblogs_old, devblogs_new, discordVars>>

\* `?` on a failed request: main returns the error.
ReturnErr ==
    /\ status' = "err"
    /\ UNCHANGED <<fs, pc, changelog_old, changelog_new, old, new, changes,
                   devblogs_old, devblogs_new, discordVars>>

(***************************************************************************)
(* main.rs:26-31, 136-144: the old and the new changelog.                  *)
(***************************************************************************)
\* What a request for CHANGELOG_URL answers: a text, or a failure.
Failure == [ok |-> FALSE, text |-> <<>>]
Answer(text) == [ok |-> TRUE, text |-> text]
ChangelogAnswers == {Failure} \cup {Answer(t) : t \in ChangelogTexts(MaxRunLines)}

\* read_changelog, or download_changelog (which stores what it fetched).
ReadChangelogOld ==
    /\ status = "running" /\ pc = "read_old"
    /\ IF fs[CHANGELOG_PATH].exists
       THEN /\ changelog_old' = fs[CHANGELOG_PATH].data
            /\ pc' = "download_new"
            /\ UNCHANGED <<fs, status, changelog_new, old, new, changes,
                           devblogs_old, devblogs_new, discordVars>>
       ELSE \E a \in ChangelogAnswers :
              IF ~a.ok THEN ReturnErr
              ELSE /\ fs' = [fs EXCEPT ![CHANGELOG_PATH] = File(a.text)]
                   /\ changelog_old' = a.text
                   /\ pc' = "download_new"
                   /\ UNCHANGED <<status, changelog_new, old, new, changes,
                                  devblogs_old, devblogs_new, discordVars>>

\* download_changelog: fetch, store, return.
DownloadChangelogNew ==
    /\ status = "running" /\ pc = "download_new"
    /\ \E a \in ChangelogAnswers :
         IF ~a.ok THEN ReturnErr
         ELSE /\ fs' = [fs EXCEPT ![CHANGELOG_PATH] = File(a.text)]
              /\ changelog_new' = a.text
              /\ pc' = "skip_old"
              /\ UNCHANGED <<status, changelog_old, old, new, changes,
                             devblogs_old, devblogs_new, discordVars>>

(***************************************************************************)
(* main.rs:36-41: position the old cursor.                                 *)
(***************************************************************************)
SkipOld ==
    /\ status = "running" /\ pc = "skip_old"
    /\ LET m == SkipToUnreleased(Split(changelog_old))
           r == IF m.panic THEN Panicked ELSE SkipNoise(m.it)
       IN IF r.panic THEN Panic
          ELSE /\ old' = r.it
               /\ pc' = "skip_new"
               /\ UNCHANGED <<fs, status, changelog_old, changelog_new, new,
                              changes, devblogs_old, devblogs_new, discordVars>>

(***************************************************************************)
(* main.rs:43-44: position the new cursor.                                 *)
(***************************************************************************)
SkipNew ==
    /\ status = "running" /\ pc = "skip_new"
    /\ LET m == SkipToUnreleased(Split(changelog_new))
       IN IF m.panic THEN Panic
          ELSE /\ new' = m.it
               /\ pc' = "loop"
               /\ UNCHANGED <<fs, status, changelog_old, changelog_new, old,
                              changes, devblogs_old, devblogs_new, discordVars>>

(***************************************************************************)
(* main.rs:47-79: one iteration of `for line in new`.                      *)
(***************************************************************************)
\* The iterator is exhausted, or the line starts the first versioned section.
LoopEnd ==
    /\ status = "running" /\ pc = "loop"
    /\ IF new = <<>> THEN TRUE ELSE StartsWith(Head(new), TopPrefix)
    /\ pc' = "drop_trailing"
    /\ new' = IF new = <<>> THEN new ELSE Tail(new)
    /\ UNCHANGED <<fs, status, changelog_old, changelog_new, old, changes,
                   devblogs_old, devblogs_new, discordVars>>

LoopBlank ==
    /\ status = "running" /\ pc = "loop"
    /\ new # <<>> /\ Head(new) = <<>>
    /\ new' = Tail(new)
    /\ UNCHANGED <<fs, pc, status, changelog_old, changelog_new, old, changes,
                   devblogs_old, devblogs_new, discordVars>>

LoopSubSection ==
    /\ status = "running" /\ pc = "loop"
    /\ new # <<>> /\ StartsWith(Head(new), SubPrefix)
    /\ changes' = Append(PopEmptySection(changes),
                         TopPrefix \o StripPrefix(Head(new), SubPrefix))
    /\ new' = Tail(new)
    /\ UNCHANGED <<fs, pc, status, changelog_old, changelog_new, old,
                   devblogs_old, devblogs_new, discordVars>>

\* A line that reaches the comparison with the old cursor.
IsContent(line) ==
    /\ ~StartsWith(line, TopPrefix)
    /\ line # <<>>
    /\ ~StartsWith(line, SubPrefix)

\* else if &line != old.peek().unwrap()
LoopDiffers ==
    /\ status = "running" /\ pc = "loop"
    /\ new # <<>> /\ IsContent(Head(new))
    /\ IF old = <<>> THEN Panic
       ELSE /\ Head(new) # Head(old)
            /\ IF StartsWith(Head(new), BulletPrefix)
               THEN /\ changes' = Append(changes, Head(new))
                    /\ new' = Tail(new)
                    /\ UNCHANGED <<fs, pc, status, changelog_old, changelog_new,
                                   old, devblogs_old, devblogs_new, discordVars>>
               ELSE IF changes = <<>> THEN Panic
               ELSE /\ changes' = AppendToLast(changes, Head(new))
                    /\ new' = Tail(new)
                    /\ UNCHANGED <<fs, pc, status, changelog_old, changelog_new,
                                   old, devblogs_old, devblogs_new, discordVars>>

LoopEqual ==
    /\ status = "running" /\ pc = "loop"
    /\ new # <<>> /\ IsContent(Head(new))
    /\ old # <<>> /\ Head(new) = Head(old)
    /\ LET r == AdvanceOld(old)
       IN IF r.panic THEN Panic
          ELSE /\ old' = r.it
               /\ new' = Tail(new)
               /\ UNCHANGED <<fs, pc, status, changelog_old, changelog_new,
                              changes, devblogs_old, devblogs_new, discordVars>>

(***************************************************************************)
(* main.rs:81-86: drop a trailing empty sub-section.                       *)
(***************************************************************************)
DropTrailing ==
    /\ status = "running" /\ pc = "drop_trailing"
    /\ changes' = PopEmptySection(changes)
    /\ pc' = "read_devblogs"
    /\ UNCHANGED <<fs, status, changelog_old, changelog_new, old, new,
                   devblogs_old, devblogs_new, discordVars>>

ExtractNext ==
    \/ SkipOld
    \/ SkipNew
    \/ LoopEnd
    \/ LoopBlank
    \/ LoopSubSection
    \/ LoopDiffers
    \/ LoopEqual
    \/ DropTrailing

(***************************************************************************)
(* main.rs:88-107, 146-162: the blog index.                                *)
(***************************************************************************)
\* .filter_map(|e| e.value().attr("href").map(|s| s.to_string() + "\n")).collect::<String>()
DevblogsText(entries) ==
    Concat([i \in 1..Len(entries) |-> entries[i] \o <<NL>>])

\* What a request for DEVBLOGS_URL yields once the links are selected.
DevblogsTexts == {DevblogsText(e) : e \in SeqsUpTo(Urls, MaxFeedEntries)}
DevblogsAnswers == {Failure} \cup {Answer(t) : t \in DevblogsTexts}

\* read_devblogs, or download_devblogs (which stores what it fetched). The
\* changelog texts and their cursors are not read again (main.rs:97 shadows
\* `old` and `new`): the model forgets them here.
ReadDevblogsOld ==
    /\ status = "running" /\ pc = "read_devblogs"
    /\ changelog_old' = <<>> /\ changelog_new' = <<>>
    /\ old' = <<>> /\ new' = <<>>
    /\ IF fs[DEVBLOGS_PATH].exists
       THEN /\ devblogs_old' = fs[DEVBLOGS_PATH].data
            /\ pc' = "download_devblogs"
            /\ UNCHANGED <<fs, status, changes, devblogs_new, discordVars>>
       ELSE \E a \in DevblogsAnswers :
              IF ~a.ok
              THEN /\ status' = "err"
                   /\ UNCHANGED <<fs, pc, changes, devblogs_old, devblogs_new,
                                  discordVars>>
              ELSE /\ fs' = [fs EXCEPT ![DEVBLOGS_PATH] = File(a.text)]
                   /\ devblogs_old' = a.text
                   /\ pc' = "download_devblogs"
                   /\ UNCHANGED <<status, changes, devblogs_new, discordVars>>

\* download_devblogs: fetch, select, store, return.
DownloadDevblogsNew ==
    /\ status = "running" /\ pc = "download_devblogs"
    /\ \E a \in DevblogsAnswers :
         IF ~a.ok THEN ReturnErr
         ELSE /\ fs' = [fs EXCEPT ![DEVBLOGS_PATH] = File(a.text)]
              /\ devblogs_new' = a.text
              /\ pc' = "extract_devblogs"
              /\ UNCHANGED <<status, changelog_old, changelog_new, old, new,
                             changes, devblogs_old, discordVars>>

RECURSIVE TakeWhileNot(_, _)
\* .take_while(|s| s != &old)
TakeWhileNot(ls, x) ==
    IF ls = <<>> \/ Head(ls) = x THEN <<>>
    ELSE <<Head(ls)>> \o TakeWhileNot(Tail(ls), x)

\* main.rs:97-102
NewDevblogs(dold, dnew) ==
    LET sentinel == Head(Split(dold))
        taken == TakeWhileNot(Split(dnew), sentinel)
    IN [i \in 1..Len(taken) |-> BulletPrefix \o taken[i]]

\* main.rs:96-107
ExtractDevblogs ==
    /\ status = "running" /\ pc = "extract_devblogs"
    /\ LET nb == NewDevblogs(devblogs_old, devblogs_new)
       IN changes' = IF nb # <<>> THEN changes \o <<BlogHeader>> \o nb
                     ELSE changes
    /\ pc' = "check_changes"
    /\ UNCHANGED <<fs, status, changelog_old, changelog_new, old, new,
                   devblogs_old, devblogs_new, discordVars>>

FeedNext ==
    \/ ReadDevblogsOld
    \/ DownloadDevblogsNew
    \/ ExtractDevblogs

(***************************************************************************)
(* main.rs:109-133: message the channel if anything has changed.           *)
(***************************************************************************)
\* A plausible slip: the client is started whatever the changes.
ShouldNotifyAlways(ch) == TRUE

\* if !changes.is_empty()
ShouldNotify(ch) == ch # <<>>

CheckChanges ==
    /\ status = "running" /\ pc = "check_changes"
    /\ IF ShouldNotify(changes)
       THEN /\ pc' = "build_client"
            /\ UNCHANGED status
       ELSE /\ pc' = "done"
            /\ status' = "ok"
    /\ UNCHANGED <<fs, changelog_old, changelog_new, old, new, changes,
                   devblogs_old, devblogs_new, discordVars>>

\* main.rs:111-126: read the token (unwrap), build the client (expect), save
\* the shard manager.
BuildClient ==
    /\ status = "running" /\ pc = "build_client"
    /\ IF ~fs[TOKEN_PATH].exists THEN Panic
       ELSE \E built \in BOOLEAN :
              IF ~built THEN Panic
              ELSE /\ client' = "built"
                   /\ message' = Title \o Join(changes)
                   /\ SHARD_MANAGER' = TRUE
                   /\ pc' = "start_client"
                   /\ UNCHANGED <<fs, status, changelog_old, changelog_new, old,
                                  new, changes, devblogs_old, devblogs_new,
                                  handler, guildsLeft, channelsLeft, attempts,
                                  delivered>>

\* main.rs:128-130: client.start() connects, or returns an error that is printed.
StartClient ==
    /\ status = "running" /\ pc = "start_client"
    /\ \E connects \in BOOLEAN :
         IF connects
         THEN /\ client' = "connected"
              /\ pc' = "started"
              /\ UNCHANGED status
         ELSE /\ client' = "closed"
              /\ pc' = "done"
              /\ status' = "ok"
    /\ UNCHANGED <<fs, changelog_old, changelog_new, old, new, changes,
                   devblogs_old, devblogs_new, message, SHARD_MANAGER, handler,
                   guildsLeft, channelsLeft, attempts, delivered>>

\* main.rs:128-133: client.start() returns once the shards are shut down.
ClientReturns ==
    /\ status = "running" /\ pc = "started"
    /\ client = "closed"
    /\ pc' = "done"
    /\ status' = "ok"
    /\ UNCHANGED <<fs, changelog_old, changelog_new, old, new, changes,
                   devblogs_old, devblogs_new, discordVars>>

(***************************************************************************)
(* main.rs:170-191: Handler::ready.                                        *)
(***************************************************************************)
\* main.rs:170-171: the gateway reports ready; context.cache.guilds().
Ready ==
    /\ client = "connected" /\ handler = "idle"
    /\ \E n \in 0..MaxGuilds : guildsLeft' = n
    /\ handler' = "guilds"
    /\ UNCHANGED <<fs, mainVars, client, message, SHARD_MANAGER, channelsLeft,
                   attempts, delivered>>

\* What guild_id.channels(&context.http) answers: the channels, or an error.
ChannelAnswers ==
    {[ok |-> FALSE, channels |-> <<>>]}
        \cup {[ok |-> TRUE, channels |-> c] : c \in SeqsUpTo(ChannelNames, MaxChannels)}

\* main.rs:172: guild_id.channels(&context.http).await.unwrap()
ListChannels ==
    /\ client = "connected" /\ handler = "guilds" /\ guildsLeft > 0
    /\ \E a \in ChannelAnswers :
         IF ~a.ok
         THEN /\ handler' = "panicked"
              /\ UNCHANGED channelsLeft
         ELSE /\ channelsLeft' = a.channels
              /\ handler' = IF a.channels = <<>> THEN "guilds" ELSE "channels"
    /\ guildsLeft' = guildsLeft - 1
    /\ UNCHANGED <<fs, mainVars, client, message, SHARD_MANAGER, attempts,
                   delivered>>

\* main.rs:173-180: say the message on a channel named "veloren-updates"; a
\* failure is printed.
VisitChannel ==
    /\ client = "connected" /\ handler = "channels"
    /\ IF Head(channelsLeft) = UpdatesChannel
       THEN /\ attempts' = attempts + 1
            /\ \E sent \in BOOLEAN :
                 delivered' = IF sent THEN delivered + 1 ELSE delivered
       ELSE UNCHANGED <<attempts, delivered>>
    /\ channelsLeft' = Tail(channelsLeft)
    /\ handler' = IF Tail(channelsLeft) = <<>> THEN "guilds" ELSE "channels"
    /\ UNCHANGED <<fs, mainVars, client, message, SHARD_MANAGER, guildsLeft>>

\* main.rs:184-190: shut the shards down.
Shutdown ==
    /\ client = "connected" /\ handler = "guilds" /\ guildsLeft = 0
    /\ client' = IF SHARD_MANAGER THEN "closed" ELSE client
    /\ handler' = "returned"
    /\ UNCHANGED <<fs, mainVars, message, SHARD_MANAGER, guildsLeft,
                   channelsLeft, attempts, delivered>>

DiscordNext ==
    \/ CheckChanges
    \/ BuildClient
    \/ StartClient
    \/ ClientReturns
    \/ Ready
    \/ ListChannels
    \/ VisitChannel
    \/ Shutdown

(***************************************************************************)
(* Specifications.                                                         *)
(***************************************************************************)
Token == <<"t">>

\* The working directory: the two baselines and the credential.
Files(c, d, k) ==
    [p \in {CHANGELOG_PATH, DEVBLOGS_PATH, TOKEN_PATH} |->
       IF p = CHANGELOG_PATH THEN c ELSE IF p = DEVBLOGS_PATH THEN d ELSE k]

DiscordInit ==
    /\ client = "none"
    /\ message = <<>>
    /\ SHARD_MANAGER = FALSE
    /\ handler = "idle"
    /\ guildsLeft = 0
    /\ channelsLeft = <<>>
    /\ attempts = 0
    /\ delivered = 0

\* A whole run of main, from the files an earlier run may have left.
Init ==
    /\ \E c \in {NoFile} \cup {File(t) : t \in ChangelogTexts(MaxRunLines)},
          d \in {NoFile} \cup {File(t) : t \in DevblogsTexts},
          k \in {NoFile, File(Token)} :
            fs = Files(c, d, k)
    /\ pc = "read_old"
    /\ status = "running"
    /\ changelog_old = <<>> /\ changelog_new = <<>>
    /\ old = <<>> /\ new = <<>>
    /\ changes = <<>>
    /\ devblogs_old = <<>> /\ devblogs_new = <<>>
    /\ DiscordInit

Next ==
    \/ ReadChangelogOld
    \/ DownloadChangelogNew
    \/ ExtractNext
    \/ FeedNext
    \/ DiscordNext

Spec == Init /\ [][Next]_vars

\* The state of main at main.rs:33 for the given old and new changelog.
Fetched(o, n) ==
    /\ changelog_old = o
    /\ changelog_new = n
    /\ fs = Files(File(n), NoFile, File(Token))
    /\ pc = "skip_old"
    /\ status = "running"
    /\ old = <<>> /\ new = <<>>
    /\ changes = <<>>
    /\ devblogs_old = <<>> /\ devblogs_new = <<>>
    /\ DiscordInit

\* The two extractions, over every pair of documents.
ExtractInit ==
    \E o \in ChangelogTexts(MaxLines), n \in ChangelogTexts(MaxLines) :
        Fetched(o, n)

SpecExtract == ExtractInit /\ [][ExtractNext \/ FeedNext]_vars

InsertAt(s, i, x) == SubSeq(s, 1, i) \o <<x>> \o SubSeq(s, i + 1, Len(s))

RECURSIVE Insertions(_, _)
\* The sections made from s by inserting at most k bullet lines.
Insertions(s, k) ==
    IF k = 0 THEN {s}
    ELSE LET less == Insertions(s, k - 1)
         IN less \cup UNION {{InsertAt(t, i, b) :
                                  i \in 0..Len(t), b \in {BulletA, BulletB}} :
                              t \in less}

\* The change extraction, where the new section is the old one with bullets
\* inserted.
InsertInit ==
    \E s \in SeqsUpTo(SectionLines, MaxLines), to \in Tails, tn \in Tails :
        \E n \in Insertions(s, MaxInserted) :
            Fetched(ChangelogText(s, to), ChangelogText(n, tn))

SpecInsert == InsertInit /\ [][ExtractNext]_vars

(***************************************************************************)
(* Vocabulary of the properties, computed from the texts and not from the  *)
(* cursors.                                                                *)
(***************************************************************************)
Last(s) == s[Len(s)]

EndsWith(s, p) ==
    Len(s) >= Len(p) /\ SubSeq(s, Len(s) - Len(p) + 1, Len(s)) = p

IsBullet(line) == StartsWith(line, BulletPrefix)

IsHeaderBlock(block) == StartsWith(block, TopPrefix)

IsContinuation(line) == IsContent(line) /\ ~IsBullet(line)

\* Exactly one line is the unreleased marker.
WellFormed(text) ==
    LET ls == Split(text)
    IN Cardinality({i \in 1..Len(ls) : ls[i] = UNRELEASED_HEADER}) = 1

\* The lines after the unreleased marker.
AfterMarker(text) ==
    LET ls == Split(text)
        m == CHOOSE i \in 1..Len(ls) : ls[i] = UNRELEASED_HEADER
    IN SubSeq(ls, m + 1, Len(ls))

HasLaterHeader(text) ==
    LET ls == AfterMarker(text)
    IN \E i \in 1..Len(ls) : StartsWith(ls[i], TopPrefix)

\* The unreleased section: the lines after the marker, up to the next
\* top-level header or the end of the text.
SectionOf(text) ==
    LET ls == AfterMarker(text)
        tops == {i \in 1..Len(ls) : StartsWith(ls[i], TopPrefix)}
        stop == IF tops = {} THEN Len(ls) + 1
                ELSE CHOOSE i \in tops : \A j \in tops : i <= j
    IN SubSeq(ls, 1, stop - 1)

ContentOf(section) == SelectSeq(section, IsContent)

Bullets(blocks) == SelectSeq(blocks, IsBullet)

RECURSIVE InsertOnly(_, _)
\* n is o with bullet lines inserted: nothing deleted, reordered or edited.
InsertOnly(n, o) ==
    IF n = <<>> THEN o = <<>>
    ELSE \/ o # <<>> /\ Head(n) = Head(o) /\ InsertOnly(Tail(n), Tail(o))
         \/ IsBullet(Head(n)) /\ InsertOnly(Tail(n), o)

RECURSIVE Leftover(_, _, _)
\* r is what is left of n after removing one in-order occurrence of o.
Leftover(n, o, r) ==
    IF n = <<>> THEN o = <<>> /\ r = <<>>
    ELSE \/ o # <<>> /\ Head(n) = Head(o) /\ Leftover(Tail(n), Tail(o), r)
         \/ r # <<>> /\ Head(n) = Head(r) /\ Leftover(Tail(n), o, Tail(r))

IsPrefix(p, s) == Len(p) <= Len(s) /\ SubSeq(s, 1, Len(p)) = p

\* The precondition of insert-only exactness.
InsertOnlyCase ==
    /\ WellFormed(changelog_old) /\ WellFormed(changelog_new)
    /\ HasLaterHeader(changelog_old) /\ HasLaterHeader(changelog_new)
    /\ InsertOnly(SectionOf(changelog_new), SectionOf(changelog_old))

\* C1: when the new unreleased section is the old one with only bullet lines
\* inserted (both followed by a top-level header), the extraction does not
\* fail and the bullet blocks of its result are the lines left of the new
\* section after removing one in-order occurrence of the old content lines:
\* as many as the new section has content lines more than the old one, and
\* exactly the appended lines when the bullets are appended at the end.
C1_InsertOnlyExact ==
    ((status = "panic" \/ pc = "read_devblogs") /\ InsertOnlyCase) =>
        /\ status # "panic"
        /\ LET so == SectionOf(changelog_old)
               sn == SectionOf(changelog_new)
               co == ContentOf(so)
               cn == ContentOf(sn)
               b == Bullets(changes)
           IN /\ Leftover(cn, co, b)
              /\ Len(b) + Len(co) = Len(cn)
              /\ IsPrefix(so, sn) => b = SubSeq(sn, Len(so) + 1, Len(sn))

\* Bullets were inserted in front of a non-empty old section and reported.
C1_Witness ==
    /\ pc = "read_devblogs"
    /\ Len(Bullets(changes)) = 2
    /\ InsertOnlyCase
    /\ ContentOf(SectionOf(changelog_old)) # <<>>
    /\ Head(SectionOf(changelog_new)) # Head(SectionOf(changelog_old))

\* C2: for every well-formed document D, the extraction with old = D and
\* new = D does not fail and yields no changes.
C2_Idempotence ==
    ((status = "panic" \/ pc = "read_devblogs")
        /\ changelog_old = changelog_new /\ WellFormed(changelog_new)) =>
        /\ status # "panic"
        /\ changes = <<>>

\* The index in the new text of the line the loop is at.
LoopIndex == Len(Split(changelog_new)) - Len(new) + 1

RECURSIVE EntryBullet(_, _)
\* The bullet line whose entry line i of ls continues: the bullet reached by
\* walking back over continuation lines; <<>> when there is none.
EntryBullet(ls, i) ==
    IF i = 0 THEN <<>>
    ELSE IF IsBullet(ls[i]) THEN ls[i]
    ELSE IF IsContinuation(ls[i]) THEN EntryBullet(ls, i - 1)
    ELSE <<>>

\* The loop is at a continuation line that differs from the old cursor's line.
AtNewContinuation ==
    /\ status = "running" /\ pc = "loop"
    /\ new # <<>> /\ IsContinuation(Head(new))
    /\ old # <<>> /\ Head(new) # Head(old)

\* C3: a continuation line of new that is not matched in old, following a
\* bullet line, is merged into one block for that bullet: the bullet line
\* followed by the continuation minus its first character; also when the
\* bullet line itself is present in old.
C3_ContinuationMerging ==
    [][LET ls == Split(changelog_new)
           b == EntryBullet(ls, LoopIndex - 1)
       IN (AtNewContinuation /\ b # <<>>) =>
            /\ status' = "running"
            /\ changes' # <<>>
            /\ StartsWith(Last(changes'), b)
            /\ EndsWith(Last(changes'), DropFirst(Head(new)))
            /\ ls[LoopIndex - 1] = b => Last(changes') = b \o DropFirst(Head(new))
      ]_vars

\* C4: a continuation line that differs from the old cursor's line while the
\* last emitted block is not a bullet entry aborts the extraction: nothing is
\* appended to a header block and no message is sent.
C4_OrphanContinuationFatal ==
    [][(AtNewContinuation /\ (changes = <<>> \/ ~IsBullet(Last(changes)))) =>
            /\ status' = "panic"
            /\ changes' = changes
            /\ attempts' = 0
      ]_vars

\* Main has the final change sequence.
ChangesFinal ==
    pc \in {"check_changes", "build_client", "start_client", "started", "done"}

\* C5: in the final change sequence every header block is immediately
\* followed by a bullet-entry block.
C5_NoEmptySection ==
    ChangesFinal =>
        \A i \in 1..Len(changes) :
            IsHeaderBlock(changes[i]) =>
                i < Len(changes) /\ IsBullet(changes[i + 1])

\* A final sequence with a changelog sub-section and the blog-post block.
C5_Witness ==
    /\ pc = "check_changes"
    /\ Len(changes) >= 4
    /\ IsHeaderBlock(changes[1]) /\ changes[1] # BlogHeader
    /\ \E i \in 1..Len(changes) : changes[i] = BlogHeader

\* C6: the fetched changelog becomes the stored baseline only after the
\* extraction over it has completed: when the run aborts during the
\* extraction, CHANGELOG.md still holds the old changelog.
C6_BaselineAfterExtraction ==
    (status = "panic" /\ pc \in {"skip_old", "skip_new", "loop", "drop_trailing"}) =>
        fs[CHANGELOG_PATH] = File(changelog_old)

\* The entries a blog index text holds: its lines, each ended by a newline.
EntriesOf(text) == SubSeq(Split(text), 1, Len(Split(text)) - 1)

\* The blog-post entries of a change sequence: the blocks after the header.
Reported(blocks) ==
    IF \E i \in 1..Len(blocks) : blocks[i] = BlogHeader
    THEN LET h == CHOOSE i \in 1..Len(blocks) : blocks[i] = BlogHeader
         IN SubSeq(blocks, h + 1, Len(blocks))
    ELSE <<>>

\* The longest prefix of es with no entry equal to x.
PrefixWithout(es, x) ==
    LET k == CHOOSE k \in 0..Len(es) :
                 /\ \A j \in 1..k : es[j] # x
                 /\ k = Len(es) \/ es[k + 1] = x
    IN SubSeq(es, 1, k)

\* C7: for a non-empty old entry list, the blog posts reported are the
\* longest prefix of the new entry list without the old list's first entry,
\* each prefixed with "- ", whether or not that entry occurs in the new list.
C7_FeedPrefix ==
    (pc = "check_changes" /\ EntriesOf(devblogs_old) # <<>>) =>
        LET p == PrefixWithout(EntriesOf(devblogs_new), EntriesOf(devblogs_old)[1])
        IN Reported(changes) = [i \in 1..Len(p) |-> BulletPrefix \o p[i]]

\* C8: with an empty old entry list the feed extraction fails: it never
\* completes, having a new list with entries to report.
C8_EmptyBaselineFails ==
    ~(/\ pc = "check_changes"
      /\ EntriesOf(devblogs_old) = <<>>
      /\ EntriesOf(devblogs_new) # <<>>)

\* C9: a connection exists, the handler runs and a message is sent only after
\* both extractions, with a non-empty change sequence; a run that ends with no
\* changes has opened no connection and sent nothing.
C9_ConnectOnlyWithChanges ==
    /\ client # "none" =>
         pc \in {"start_client", "started", "done"} /\ changes # <<>>
    /\ (client = "connected" \/ handler # "idle" \/ attempts > 0) =>
         pc \in {"started", "done"} /\ changes # <<>>
    /\ (ChangesFinal /\ pc # "check_changes" /\ changes = <<>>) =>
         /\ pc = "done" /\ status = "ok"
         /\ client = "none" /\ handler = "idle" /\ attempts = 0

\* A run that delivered its message and ended.
C9_Witness ==
    /\ status = "ok" /\ pc = "done"
    /\ client = "closed"
    /\ delivered >= 1

\* C10: once the handler has stopped, every guild and every channel has been
\* visited, whatever failed on the way, and the connection is shut down.
C10_DeliveryCompletes ==
    handler \in {"returned", "panicked"} =>
        /\ guildsLeft = 0 /\ channelsLeft = <<>>
        /\ client = "closed"

=============================================================================
